---- MODULE Spec2Model ----
(***************************************************************************)
(* csv2jsonl: a CSV stream reader (readCsv) that drives a producer         *)
(* goroutine applying the row transformer (processRow) to every data row   *)
(* and pushing the results on a buffered channel, and the CLI (main) that  *)
(* drains that channel into a JSON encoder.                                *)
(*                                                                         *)
(* Strings are sequences of bytes (naturals), as Go strings are.           *)
(***************************************************************************)
EXTENDS Naturals, Sequences, FiniteSets

\* ------------------------------------------------------------------ bounds

\* Largest number of lines after the header line in an input file.
MaxLines == 3

\* Largest row limit tried.
MaxLimit == 2

\* Capacity of the channel in the model (the code makes it with 100 slots;
\* the model scales it down so that a full buffer is reached).
Capacity == 2

\* ------------------------------------------------------------ byte strings

\* var CSVHeader = string([]byte{0xef, 0xbb, 0xbf})
CSVHeader == <<239, 187, 191>>

Min(a, b) == IF a < b THEN a ELSE b

\* s[from+1 .. ] in TLA+ terms: Go's s[from:]
SliceFrom(s, from) == SubSeq(s, from + 1, Len(s))

\* Go's s[:to]
SliceTo(s, to) == SubSeq(s, 1, to)

\* strings.HasPrefix
HasPrefix(s, prefix) ==
    /\ Len(s) >= Len(prefix)
    /\ SubSeq(s, 1, Len(prefix)) = prefix

\* strings.HasSuffix
HasSuffix(s, suffix) ==
    /\ Len(s) >= Len(suffix)
    /\ SubSeq(s, Len(s) - Len(suffix) + 1, Len(s)) = suffix

\* The white space strings.TrimSpace removes (ASCII part).
IsSpace(b) == b \in {9, 10, 11, 12, 13, 32}

RECURSIVE TrimLeft(_)
TrimLeft(s) ==
    IF s # <<>> /\ IsSpace(Head(s)) THEN TrimLeft(Tail(s)) ELSE s

RECURSIVE TrimRight(_)
TrimRight(s) ==
    IF s # <<>> /\ IsSpace(s[Len(s)]) THEN TrimRight(SubSeq(s, 1, Len(s) - 1)) ELSE s

\* strings.TrimSpace
TrimSpace(s) == TrimRight(TrimLeft(s))

\* Index of the first occurrence of byte b in s at or after position i
\* (1-based), 0 when there is none.
RECURSIVE IndexFrom(_, _, _)
IndexFrom(s, b, i) ==
    IF i > Len(s) THEN 0
    ELSE IF s[i] = b THEN i
    ELSE IndexFrom(s, b, i + 1)

\* strings.Split(s, ","): the pieces of s between commas; a string without a
\* comma, the empty string included, gives one piece.
RECURSIVE Split(_)
Split(s) ==
    LET i == IndexFrom(s, 44, 1)
    IN  IF i = 0 THEN <<s>>
        ELSE <<SubSeq(s, 1, i - 1)>> \o Split(SubSeq(s, i + 1, Len(s)))

\* A membership test that looks at the first element only.
ContainsFirst(collection, element) ==
    Len(collection) > 0 /\ collection[1] = element

\* lo.Contains
Contains(collection, element) ==
    \E i \in 1..Len(collection) : collection[i] = element

\* ------------------------------------------------------------------ values

\* The values of type interface{} the program handles: nil, a string, a
\* float64, a []interface{} and a map[string]interface{}.
Nil == [t |-> "nil", s |-> <<>>, n |-> 0, a |-> <<>>, m |-> <<>>]

StringValue(s) == [t |-> "string", s |-> s, n |-> 0, a |-> <<>>, m |-> <<>>]

NumberValue(n) == [t |-> "number", s |-> <<>>, n |-> n, a |-> <<>>, m |-> <<>>]

ArrayValue(a) == [t |-> "array", s |-> <<>>, n |-> 0, a |-> a, m |-> <<>>]

\* A map in which the first store under a key is the one kept.
MapValueFirstWins(keys, vals) ==
    [t |-> "map", s |-> <<>>, n |-> 0, a |-> <<>>,
     m |-> [k \in {keys[i] : i \in 1..Len(keys)} |->
              LET first == CHOOSE i \in 1..Len(keys) :
                               /\ keys[i] = k
                               /\ \A j \in 1..(i - 1) : keys[j] # k
              IN  vals[first]]]

\* keys: a sequence of names, vals: the values stored under them in that
\* order; a later store under an equal key overwrites the earlier one.
MapValue(keys, vals) ==
    [t |-> "map", s |-> <<>>, n |-> 0, a |-> <<>>,
     m |-> [k \in {keys[i] : i \in 1..Len(keys)} |->
              LET last == CHOOSE i \in 1..Len(keys) :
                              /\ keys[i] = k
                              /\ \A j \in (i + 1)..Len(keys) : keys[j] # k
              IN  vals[last]]]

Keys(v) == DOMAIN v.m

\* ------------------------------------------------------------ json decoding

\* encoding/json's Unmarshal into an interface{}, for texts over the bytes
\* { } [ ] " : , the digits, white space and letters other than those that
\* start a literal (t, f, n); the texts the model feeds it use only these.
\* A result is [ok, v, next]: whether a value was read, the value, and the
\* position of the first byte after it.
JsonFail == [ok |-> FALSE, v |-> Nil, next |-> 0]

IsJsonSpace(b) == b \in {9, 10, 13, 32}

IsDigit(b) == b \in 48..57

RECURSIVE SkipWs(_, _)
SkipWs(s, i) ==
    IF i <= Len(s) /\ IsJsonSpace(s[i]) THEN SkipWs(s, i + 1) ELSE i

\* A string literal starting at the quote at position i (no escapes).
ParseString(s, i) ==
    LET j == IndexFrom(s, 34, i + 1)
    IN  IF j = 0 \/ \E k \in (i + 1)..(j - 1) : s[k] = 92 \/ s[k] < 32
        THEN JsonFail
        ELSE [ok |-> TRUE, v |-> StringValue(SubSeq(s, i + 1, j - 1)), next |-> j + 1]

RECURSIVE DigitsEnd(_, _)
DigitsEnd(s, i) ==
    IF i <= Len(s) /\ IsDigit(s[i]) THEN DigitsEnd(s, i + 1) ELSE i

RECURSIVE DigitsValue(_, _, _, _)
DigitsValue(s, i, j, acc) ==
    IF i >= j THEN acc ELSE DigitsValue(s, i + 1, j, acc * 10 + (s[i] - 48))

\* An unsigned integer literal starting at the digit at position i; a
\* leading 0 is a literal on its own.
ParseNumber(s, i) ==
    LET j == IF s[i] = 48 THEN i + 1 ELSE DigitsEnd(s, i)
    IN  [ok |-> TRUE, v |-> NumberValue(DigitsValue(s, i, j, 0)), next |-> j]

RECURSIVE ParseValue(_, _)
RECURSIVE ParseElements(_, _, _)
RECURSIVE ParseMembers(_, _, _, _)

ParseValue(s, i0) ==
    LET i == SkipWs(s, i0)
    IN  IF i > Len(s) THEN JsonFail
        ELSE IF s[i] = 123 THEN
            LET j == SkipWs(s, i + 1)
            IN  IF j <= Len(s) /\ s[j] = 125
                THEN [ok |-> TRUE, v |-> MapValue(<<>>, <<>>), next |-> j + 1]
                ELSE ParseMembers(s, j, <<>>, <<>>)
        ELSE IF s[i] = 91 THEN
            LET j == SkipWs(s, i + 1)
            IN  IF j <= Len(s) /\ s[j] = 93
                THEN [ok |-> TRUE, v |-> ArrayValue(<<>>), next |-> j + 1]
                ELSE ParseElements(s, j, <<>>)
        ELSE IF s[i] = 34 THEN ParseString(s, i)
        ELSE IF IsDigit(s[i]) THEN ParseNumber(s, i)
        ELSE JsonFail

ParseElements(s, i, acc) ==
    LET r == ParseValue(s, i)
        j == SkipWs(s, r.next)
    IN  IF ~r.ok \/ j > Len(s) THEN JsonFail
        ELSE IF s[j] = 44 THEN ParseElements(s, j + 1, Append(acc, r.v))
        ELSE IF s[j] = 93
        THEN [ok |-> TRUE, v |-> ArrayValue(Append(acc, r.v)), next |-> j + 1]
        ELSE JsonFail

ParseMembers(s, i, keys, vals) ==
    LET j == SkipWs(s, i)
        k == IF j <= Len(s) /\ s[j] = 34 THEN ParseString(s, j) ELSE JsonFail
        c == SkipWs(s, k.next)
        r == IF k.ok /\ c <= Len(s) /\ s[c] = 58 THEN ParseValue(s, c + 1) ELSE JsonFail
        e == SkipWs(s, r.next)
    IN  IF ~r.ok \/ e > Len(s) THEN JsonFail
        ELSE IF s[e] = 44
        THEN ParseMembers(s, e + 1, Append(keys, k.v.s), Append(vals, r.v))
        ELSE IF s[e] = 125
        THEN [ok |-> TRUE, v |-> MapValue(Append(keys, k.v.s), Append(vals, r.v)),
              next |-> e + 1]
        ELSE JsonFail

\* json.Unmarshal([]byte(text), &data): ok is err == nil.
Unmarshal(text) ==
    LET r == ParseValue(text, 1)
    IN  IF r.ok /\ SkipWs(text, r.next) = Len(text) + 1 THEN r ELSE JsonFail

\* ------------------------------------------------------------- row transformer

\* A printer that gives back the trimmed text when decoding fails.
jsonPrinterTrimmedOnFailure(colCell) ==
    LET trimmed == TrimSpace(colCell)
    IN  IF /\ Len(trimmed) > 1
           /\ \/ HasPrefix(trimmed, <<123>>) /\ HasSuffix(trimmed, <<125>>)
              \/ HasPrefix(trimmed, <<91>>) /\ HasSuffix(trimmed, <<93>>)
        THEN LET data == Unmarshal(trimmed)
             IN  IF ~data.ok THEN StringValue(trimmed) ELSE data.v
        ELSE StringValue(colCell)

jsonPrinter(colCell) ==
    LET trimmed == TrimSpace(colCell)
    IN  IF /\ Len(trimmed) > 1
           /\ \/ HasPrefix(trimmed, <<123>>) /\ HasSuffix(trimmed, <<125>>)
              \/ HasPrefix(trimmed, <<91>>) /\ HasSuffix(trimmed, <<93>>)
        THEN LET data == Unmarshal(trimmed)
             IN  IF ~data.ok THEN StringValue(colCell) ELSE data.v
        ELSE StringValue(colCell)

rawPrinter(colCell) == StringValue(colCell)

\* A printer choice that ignores the pretty flag.
dataPrinterAlwaysJson(pretty, colCell) == jsonPrinter(colCell)

\* dataPrinter := rawPrinter; if pretty { dataPrinter = jsonPrinter }
dataPrinter(pretty, colCell) ==
    IF pretty THEN jsonPrinter(colCell) ELSE rawPrinter(colCell)

\* The row indices (1-based, in order, from i on) that the loops of
\* processRow act on: those with a column name that satisfies the mode's test.
RECURSIVE SelectedFrom(_, _, _, _)
SelectedFrom(columns, row, requiredCols, i) ==
    IF i > Len(row) THEN <<>>
    ELSE LET rest == SelectedFrom(columns, row, requiredCols, i + 1)
             hit  == /\ i <= Len(columns)
                     /\ CASE Len(requiredCols) = 0 -> TRUE
                          [] Len(requiredCols) = 1 -> requiredCols[1] = columns[i]
                          [] OTHER -> Contains(requiredCols, columns[i])
         IN  IF hit THEN <<i>> \o rest ELSE rest

\* A processRow whose single-column mode returns an empty string for a row
\* without the requested column.
processRowEmptyForMissing(columns, row, requiredCols, pretty) ==
    LET sel == SelectedFrom(columns, row, requiredCols, 1)
    IN  IF Len(requiredCols) = 1
        THEN IF sel = <<>> THEN StringValue(<<>>) ELSE jsonPrinter(row[sel[1]])
        ELSE MapValue([k \in 1..Len(sel) |-> columns[sel[k]]],
                      [k \in 1..Len(sel) |-> dataPrinter(pretty, row[sel[k]])])

processRow(columns, row, requiredCols, pretty) ==
    LET sel == SelectedFrom(columns, row, requiredCols, 1)
    IN  IF Len(requiredCols) = 1
        THEN IF sel = <<>> THEN Nil ELSE jsonPrinter(row[sel[1]])
        ELSE MapValue([k \in 1..Len(sel) |-> columns[sel[k]]],
                      [k \in 1..Len(sel) |-> dataPrinter(pretty, row[sel[k]])])

\* ------------------------------------------------------------ csv tokenizer

\* An input file is a sequence of lines; a line is a record of one or more
\* cells, a blank line, or a place where reading the file fails.
Record(cells) == [kind |-> "record", cells |-> cells]

BlankLine == [kind |-> "blank", cells |-> <<>>]

IoError == [kind |-> "ioerror", cells |-> <<>>]

\* csv.NewReader(f): nothing read yet, FieldsPerRecord = 0.
NewReader == [pos |-> 0, fieldsPerRecord |-> 0]

\* Index of the line after position i, blank or not, 0 if none.
NextLineNoSkip(f, i) == IF i >= Len(f) THEN 0 ELSE i + 1

\* Index of the first line after position i that is not blank, 0 if none.
RECURSIVE NextLine(_, _)
NextLine(f, i) ==
    IF i >= Len(f) THEN 0
    ELSE IF f[i + 1].kind = "blank" THEN NextLine(f, i + 1)
    ELSE i + 1

\* csvReader.Read() of encoding/csv with FieldsPerRecord = 0: blank lines are
\* skipped; the first record fixes the number of fields and a later record
\* with another number of fields is returned with ErrFieldCount.
csvRead(f, reader) ==
    LET i == NextLine(f, reader.pos)
    IN  IF i = 0
        THEN [row |-> <<>>, err |-> "EOF",
              reader |-> [reader EXCEPT !.pos = Len(f)]]
        ELSE IF f[i].kind = "ioerror"
        THEN [row |-> <<>>, err |-> "read error",
              reader |-> [reader EXCEPT !.pos = i]]
        ELSE IF reader.fieldsPerRecord = 0
        THEN [row |-> f[i].cells, err |-> "nil",
              reader |-> [pos |-> i, fieldsPerRecord |-> Len(f[i].cells)]]
        ELSE [row |-> f[i].cells,
              err |-> IF Len(f[i].cells) = reader.fieldsPerRecord
                      THEN "nil" ELSE "wrong number of fields",
              reader |-> [reader EXCEPT !.pos = i]]

\* ------------------------------------------------------------------- state

VARIABLES
    file,          \* the lines of the input file f
    columnsFlag,   \* main: the text of the -columns flag
    requiredCols,  \* readCsv's argument requiredCols
    limit,         \* readCsv's argument limit
    pretty,        \* readCsv's argument pretty
    pc,            \* where the caller of readCsv is
    err,           \* the error readCsv returned
    csvReader,     \* the tokenizer: position in the file, FieldsPerRecord
    columns,       \* the header readCsv keeps
    lines,         \* the channel: made, buffered values, closed
    ppc,           \* where the producer goroutine is
    rows,          \* the producer's row counter
    result,        \* the producer's result of processRow, to be sent
    readErr,       \* the error of the producer's last csvReader.Read()
    received,      \* the values the consumer's range loop has received
    output,        \* main: the output destination: opened, values encoded
    row            \* processRow's argument row, when it is applied on its own

vars == <<file, columnsFlag, requiredCols, limit, pretty, pc, err, csvReader,
          columns, lines, ppc, rows, result, readErr, received, output, row>>

NilChan == [made |-> FALSE, buf |-> <<>>, closed |-> FALSE]

\* make(chan interface{}, 100)
MakeChan == [made |-> TRUE, buf |-> <<>>, closed |-> FALSE]

\* ------------------------------------------------------------------ readCsv

\* The prefix removed by offsets taken from the length of the name:
\* columns[0] = columns[0][4 : len(columns[0])-1]
StripHeaderByOffset(cols) ==
    IF Len(cols[1]) >= 3 /\ SliceTo(cols[1], 3) = CSVHeader
    THEN [cols EXCEPT ![1] = SubSeq(cols[1], 5, Len(cols[1]) - 1)]
    ELSE cols

\* if len(columns[0]) >= 3 && columns[0][:3] == CSVHeader { columns[0] = columns[0][3:] }
StripHeader(cols) ==
    IF Len(cols[1]) >= 3 /\ SliceTo(cols[1], 3) = CSVHeader
    THEN [cols EXCEPT ![1] = SliceFrom(cols[1], 3)]
    ELSE cols

\* A header check that also rejects a header of one column.
headerErrorOneColumn(h) ==
    IF h.err # "nil" THEN "failed to read CSV header"
    ELSE IF Len(h.row) <= 1 THEN "CSV file has no columns"
    ELSE "nil"

\* The error readCsv returns for the outcome h of reading the header.
headerError(h) ==
    IF h.err # "nil" THEN "failed to read CSV header"
    ELSE IF Len(h.row) = 0 THEN "CSV file has no columns"
    ELSE "nil"

\* readCsv up to its return: the header is read and normalised, the channel
\* made and the producer goroutine started; on a failure nothing is started.
readCsv ==
    LET h == csvRead(file, NewReader)
    IN  /\ csvReader' = h.reader
        /\ err' = headerError(h)
        /\ IF headerError(h) # "nil"
           THEN UNCHANGED <<columns, lines, ppc>>
           ELSE /\ columns' = StripHeader(h.row)
                /\ lines' = MakeChan
                /\ ppc' = "read"
        /\ UNCHANGED <<rows, result, readErr>>

\* A loop that a failed read never ends.
leavesLoopNever(e) == FALSE

\* A loop that only end of input ends.
leavesLoopAtEofOnly(e) == e = "EOF"

\* if err != nil { if err == io.EOF { break }; log.Errorf(...); break }
leavesLoop(e) == e # "nil"

\* The limit check taken one row late.
limitExceededLate(lim, n) == lim > 0 /\ n > lim + 1

\* The limit check taken one row early.
limitExceededEarly(lim, n) == lim > 0 /\ n >= lim

\* if limit > 0 && rows > limit { break }
limitExceeded(lim, n) == lim > 0 /\ n > lim

\* A send that puts the value in front of the buffered ones.
chanSendFront(ch, v) == [ch EXCEPT !.buf = <<v>> \o @]

\* lines <- result on a channel with room
chanSend(ch, v) == [ch EXCEPT !.buf = Append(@, v)]

\* The value a receive takes from a channel that holds one.
chanFront(ch) == Head(ch.buf)

\* A receive that empties the buffer.
chanRecvDrain(ch) == [ch EXCEPT !.buf = <<>>]

\* The channel after that receive.
chanRecv(ch) == [ch EXCEPT !.buf = Tail(@)]

\* A close that leaves the channel open.
chanCloseNoop(ch) == ch

\* close(lines)
chanClose(ch) == [ch EXCEPT !.closed = TRUE]

\* One pass of the producer's loop up to the send: read a row, leave the
\* loop at end of input, on a read error and past the limit, skip a row
\* without cells, and transform the row.
ProducerRead ==
    /\ ppc = "read"
    /\ pc # "fatal"
    /\ LET r == csvRead(file, csvReader)
       IN  /\ csvReader' = r.reader
           /\ readErr' = r.err
           /\ IF leavesLoop(r.err)
              THEN /\ ppc' = "close"
                   /\ UNCHANGED <<rows, result>>
              ELSE IF Len(r.row) = 0
              THEN UNCHANGED <<ppc, rows, result>>
              ELSE /\ rows' = rows + 1
                   /\ IF limitExceeded(limit, rows + 1)
                      THEN /\ ppc' = "close"
                           /\ UNCHANGED result
                      ELSE /\ result' = processRow(columns, r.row, requiredCols, pretty)
                           /\ ppc' = IF result' # Nil THEN "send" ELSE "read"
    /\ UNCHANGED <<file, columnsFlag, requiredCols, limit, pretty, pc, err,
                   columns, lines, received, output, row>>

\* A send that does not wait for room in the buffer.
ProducerSendUnbounded ==
    /\ ppc = "send"
    /\ pc # "fatal"
    /\ lines' = chanSend(lines, result)
    /\ ppc' = "read"
    /\ UNCHANGED <<file, columnsFlag, requiredCols, limit, pretty, pc, err,
                   csvReader, columns, rows, result, readErr, received, output, row>>

\* A send that gives up and leaves the loop when the buffer is full and the
\* receiver has stopped.
ProducerSendOrGiveUp ==
    /\ ppc = "send"
    /\ pc # "fatal"
    /\ \/ /\ Len(lines.buf) < Capacity
          /\ lines' = chanSend(lines, result)
          /\ ppc' = "read"
       \/ /\ Len(lines.buf) >= Capacity
          /\ pc = "stopped"
          /\ ppc' = "close"
          /\ UNCHANGED lines
    /\ UNCHANGED <<file, columnsFlag, requiredCols, limit, pretty, pc, err,
                   csvReader, columns, rows, result, readErr, received, output, row>>

\* lines <- result: blocks while the buffer is full.
ProducerSend ==
    /\ ppc = "send"
    /\ pc # "fatal"
    /\ Len(lines.buf) < Capacity
    /\ lines' = chanSend(lines, result)
    /\ ppc' = "read"
    /\ UNCHANGED <<file, columnsFlag, requiredCols, limit, pretty, pc, err,
                   csvReader, columns, rows, result, readErr, received, output, row>>

\* A close after which the producer goes on reading.
ProducerCloseEarly ==
    /\ ppc = "close"
    /\ pc # "fatal"
    /\ lines' = chanClose(lines)
    /\ ppc' = "read"
    /\ UNCHANGED <<file, columnsFlag, requiredCols, limit, pretty, pc, err,
                   csvReader, columns, rows, result, readErr, received, output, row>>

\* The deferred close(lines) on leaving the loop.
ProducerClose ==
    /\ ppc = "close"
    /\ pc # "fatal"
    /\ lines' = chanClose(lines)
    /\ ppc' = "exited"
    /\ UNCHANGED <<file, columnsFlag, requiredCols, limit, pretty, pc, err,
                   csvReader, columns, rows, result, readErr, received, output, row>>

\* ------------------------------------------------- a caller that drains

\* lines, err := readCsv(file, requiredCols, limit, pretty); require.NoError
CallReadCsv ==
    /\ pc = "call"
    /\ readCsv
    /\ pc' = IF err' = "nil" THEN "range" ELSE "failed"
    /\ UNCHANGED <<file, columnsFlag, requiredCols, limit, pretty, received,
                   output, row>>

\* for line := range lines { results = append(results, line) }
Receive ==
    /\ pc = "range"
    /\ lines.buf # <<>>
    /\ received' = Append(received, chanFront(lines))
    /\ lines' = chanRecv(lines)
    /\ UNCHANGED <<file, columnsFlag, requiredCols, limit, pretty, pc, err,
                   csvReader, columns, ppc, rows, result, readErr, output, row>>

\* The range loop ends when the channel is closed and drained.
RangeEnd ==
    /\ pc = "range"
    /\ lines.buf = <<>>
    /\ lines.closed
    /\ pc' = "done"
    /\ UNCHANGED <<file, columnsFlag, requiredCols, limit, pretty, err,
                   csvReader, columns, lines, ppc, rows, result, readErr,
                   received, output, row>>

\* A caller that stops receiving before the channel is closed: readCsv
\* hands out the channel alone, with nothing by which the producer could
\* learn of it.
ConsumerStops ==
    /\ pc = "range"
    /\ ~lines.closed
    /\ pc' = "stopped"
    /\ UNCHANGED <<file, columnsFlag, requiredCols, limit, pretty, err,
                   csvReader, columns, lines, ppc, rows, result, readErr,
                   received, output, row>>

\* --------------------------------------------------------------------- main

NoOutput == [opened |-> FALSE, encoded |-> <<>>]

\* cols := strings.Split(*columns, ",")
MainSplit ==
    /\ pc = "main"
    /\ requiredCols' = Split(columnsFlag)
    /\ pc' = "mcall"
    /\ UNCHANGED <<file, columnsFlag, limit, pretty, err, csvReader, columns,
                   lines, ppc, rows, result, readErr, received, output, row>>

\* A call of readCsv whose error is not looked at.
MainReadCsvUnchecked ==
    /\ pc = "mcall"
    /\ readCsv
    /\ pc' = "mopen"
    /\ UNCHANGED <<file, columnsFlag, requiredCols, limit, pretty, received,
                   output, row>>

\* lines, err := readCsv(f, cols, *limit); a failure is fatal.
MainReadCsv ==
    /\ pc = "mcall"
    /\ readCsv
    /\ pc' = IF err' = "nil" THEN "mopen" ELSE "fatal"
    /\ UNCHANGED <<file, columnsFlag, requiredCols, limit, pretty, received,
                   output, row>>

\* enc = json.NewEncoder(os.Stdout), or of the output file opened with
\* O_CREATE|O_WRONLY|O_APPEND.
MainOpenOutput ==
    /\ pc = "mopen"
    /\ output' = [output EXCEPT !.opened = TRUE]
    /\ pc' = "mrange"
    /\ UNCHANGED <<file, columnsFlag, requiredCols, limit, pretty, err,
                   csvReader, columns, lines, ppc, rows, result, readErr,
                   received, row>>

\* Opening the output file fails: log.Fatalf ends the process.
MainOpenOutputFails ==
    /\ pc = "mopen"
    /\ pc' = "fatal"
    /\ UNCHANGED <<file, columnsFlag, requiredCols, limit, pretty, err,
                   csvReader, columns, lines, ppc, rows, result, readErr,
                   received, output, row>>

\* for line := range lines { records++; enc.Encode(line) }
MainEncode ==
    /\ pc = "mrange"
    /\ lines.buf # <<>>
    /\ output' = [output EXCEPT !.encoded = Append(@, chanFront(lines))]
    /\ lines' = chanRecv(lines)
    /\ UNCHANGED <<file, columnsFlag, requiredCols, limit, pretty, pc, err,
                   csvReader, columns, ppc, rows, result, readErr, received, row>>

MainRangeEnd ==
    /\ pc = "mrange"
    /\ lines.buf = <<>>
    /\ lines.closed
    /\ pc' = "mdone"
    /\ UNCHANGED <<file, columnsFlag, requiredCols, limit, pretty, err,
                   csvReader, columns, lines, ppc, rows, result, readErr,
                   received, output, row>>

\* ------------------------------------------------- processRow on its own

\* result := processRow(columns, row, requiredCols, pretty)
ApplyProcessRow ==
    /\ pc = "apply"
    /\ result' = processRow(columns, row, requiredCols, pretty)
    /\ pc' = "applied"
    /\ UNCHANGED <<file, columnsFlag, requiredCols, limit, pretty, err,
                   csvReader, columns, lines, ppc, rows, readErr, received,
                   output, row>>

\* ------------------------------------------------- jsonPrinter on its own

\* result := jsonPrinter(input), the input being row[0]
ApplyJsonPrinter ==
    /\ pc = "print"
    /\ result' = jsonPrinter(row[1])
    /\ pc' = "printed"
    /\ UNCHANGED <<file, columnsFlag, requiredCols, limit, pretty, err,
                   csvReader, columns, lines, ppc, rows, readErr, received,
                   output, row>>

\* ------------------------------------------------------------------ inputs

NameA == <<97>>
NameB == <<98>>
NameC == <<99>>

CellX == <<120>>
NameX == <<120>>
CellY == <<121>>
\* {}
CellObject == <<123, 125>>
\* [1]
CellArray == <<91, 49, 93>>
\* {x}
CellBadJson == <<123, 120, 125>>

SeqUpTo(S, n) == UNION {[1..k -> S] : k \in 0..n}

\* The lines after the header of a two-column file: two rows that differ in
\* every cell, a row with a cell missing, a blank line, a failing read.
DataLines ==
    {Record(<<CellX, CellY>>), Record(<<CellY, CellObject>>), Record(<<CellX>>),
     BlankLine, IoError}

Files ==
    {<<>>, <<IoError>>, <<BlankLine, Record(<<NameA, NameB>>), Record(<<CellX, CellY>>)>>}
    \cup {<<Record(<<NameA, NameB>>)>> \o d : d \in SeqUpTo(DataLines, MaxLines)}

Selections ==
    {<<>>, <<NameA>>, <<NameC>>, <<NameA, NameB>>, <<NameB, NameC>>}

\* The state before readCsv is called, but for the inputs.
Idle ==
    /\ err = "nil"
    /\ csvReader = NewReader
    /\ columns = <<>>
    /\ lines = NilChan
    /\ ppc = "none"
    /\ rows = 0
    /\ result = Nil
    /\ readErr = "nil"
    /\ received = <<>>
    /\ output = NoOutput

Init ==
    /\ file \in Files
    /\ columnsFlag = <<>>
    /\ requiredCols \in Selections
    /\ limit \in 0..MaxLimit
    /\ pretty \in BOOLEAN
    /\ pc = "call"
    /\ row = <<>>
    /\ Idle

\* Largest number of header names and of row cells handed to processRow
\* when it is applied on its own.
MaxCols == 3

RowSelections == Selections \cup {<<NameB>>, <<NameA, NameA>>}

\* processRow is about to be applied to arguments of its own (as its unit
\* tests apply it): header and row need not have the same length.
InitRow ==
    /\ file = <<>>
    /\ columnsFlag = <<>>
    /\ limit = 0
    /\ columns \in SeqUpTo({NameA, NameB}, MaxCols)
    /\ row \in SeqUpTo({CellX, CellObject, CellBadJson}, MaxCols)
    /\ requiredCols \in RowSelections
    /\ pretty \in BOOLEAN
    /\ pc = "apply"
    /\ err = "nil"
    /\ csvReader = NewReader
    /\ lines = NilChan
    /\ ppc = "none"
    /\ rows = 0
    /\ result = Nil
    /\ readErr = "nil"
    /\ received = <<>>
    /\ output = NoOutput

\* First header names with and without the byte order mark: a, BOM a, the
\* BOM alone, two of its three bytes, the empty name, BOM BOM a, two BOM
\* bytes and a, a BOM.
FirstNames ==
    {NameA, CSVHeader \o NameA, CSVHeader, <<239, 187>>, <<>>,
     CSVHeader \o CSVHeader \o NameA, <<239, 187, 97>>, NameA \o CSVHeader}

HeaderLines ==
    {<<f>> \o rest : f \in FirstNames, rest \in {<<>>, <<NameB>>, <<CSVHeader \o NameB>>}}

AllX(n) == [i \in 1..n |-> CellX]

HeaderFiles ==
    {<<>>, <<IoError>>, <<BlankLine>>, <<BlankLine, IoError>>}
    \cup UNION {{<<Record(h)>>, <<Record(h), Record(AllX(Len(h)))>>, <<Record(h), IoError>>} :
                  h \in HeaderLines}

\* Inputs that differ in their header line.
InitHeader ==
    /\ file \in HeaderFiles
    /\ columnsFlag = <<>>
    /\ requiredCols \in {<<>>, <<NameA>>}
    /\ limit = 0
    /\ pretty = FALSE
    /\ pc = "call"
    /\ row = <<>>
    /\ Idle

\* The values of the -columns flag: not given, a, a,b and c.
ColumnsFlags == {<<>>, <<97>>, <<97, 44, 98>>, <<99>>}

MainFiles ==
    {<<>>, <<IoError>>}
    \cup {<<Record(<<NameA, NameB>>)>> \o d :
             d \in SeqUpTo({Record(<<CellX, CellY>>), Record(<<CellY, CellObject>>)}, 2)}

\* main after its flags are parsed and the input file is opened.
InitMain ==
    /\ file \in MainFiles
    /\ columnsFlag \in ColumnsFlags
    /\ requiredCols = <<>>
    /\ limit \in 0..1
    /\ pretty \in BOOLEAN
    /\ pc = "main"
    /\ row = <<>>
    /\ Idle

\* Largest length of the cell texts drawn from CellBytes.
MaxCell == 4

\* The bytes of those texts: space { } [ ] 1 x and the comma.
CellBytes == {32, 123, 125, 91, 93, 49, 120, 44}

\* Longer texts:   {"x":1}   with spaces around it, {"x": x}, [1, 11],
\* {"x":[]} followed by a space, ["x"], {"x":1,"x":11}, [01], {"x":1] and x.
LongCells ==
    {<<32, 32, 123, 34, 120, 34, 58, 49, 125, 32, 32>>,
     <<123, 34, 120, 34, 58, 32, 120, 125>>,
     <<91, 49, 44, 32, 49, 49, 93>>,
     <<123, 34, 120, 34, 58, 91, 93, 125, 32>>,
     <<91, 34, 120, 34, 93>>,
     <<123, 34, 120, 34, 58, 49, 44, 34, 120, 34, 58, 49, 49, 125>>,
     <<91, 48, 49, 93>>,
     <<123, 34, 120, 34, 58, 49, 93>>,
     <<32, 120, 32>>}

\* jsonPrinter is about to be applied to a cell text (as its unit test
\* applies it).
InitPrinter ==
    /\ file = <<>>
    /\ columnsFlag = <<>>
    /\ requiredCols = <<>>
    /\ limit = 0
    /\ pretty = TRUE
    /\ columns = <<>>
    /\ row \in {<<c>> : c \in SeqUpTo(CellBytes, MaxCell) \cup LongCells}
    /\ pc = "print"
    /\ err = "nil"
    /\ csvReader = NewReader
    /\ lines = NilChan
    /\ ppc = "none"
    /\ rows = 0
    /\ result = Nil
    /\ readErr = "nil"
    /\ received = <<>>
    /\ output = NoOutput

Next ==
    \/ CallReadCsv
    \/ ProducerRead
    \/ ProducerSend
    \/ ProducerClose
    \/ Receive
    \/ RangeEnd

Spec == Init /\ [][Next]_vars

\* readCsv with a caller that may stop receiving at any time.
NextCancel ==
    \/ Next
    \/ ConsumerStops

SpecCancel == Init /\ [][NextCancel]_vars

\* The steps of the producer goroutine and those of the consumer's loop.
Producer == ProducerRead \/ ProducerSend \/ ProducerClose

Consumer == Receive \/ RangeEnd

\* Inputs for the runs under fairness: a readable header, then rows, blank
\* lines and failing reads in every order, every limit, and selections with
\* and without values to send.
InitFair ==
    /\ file \in {<<Record(<<NameA, NameB>>)>> \o d :
                    d \in SeqUpTo({Record(<<CellX, CellY>>), BlankLine, IoError}, MaxLines)}
    /\ columnsFlag = <<>>
    /\ requiredCols \in {<<>>, <<NameA>>, <<NameC>>}
    /\ limit \in 0..MaxLimit
    /\ pretty = FALSE
    /\ pc = "call"
    /\ row = <<>>
    /\ Idle

\* The Go scheduler runs a goroutine that stays runnable: weak fairness of
\* the producer and of the consumer.
SpecFair == InitFair /\ [][Next]_vars /\ WF_vars(Producer) /\ WF_vars(Consumer)

NextRow == ApplyProcessRow

SpecHeader == InitHeader /\ [][Next]_vars

NextMain ==
    \/ MainSplit
    \/ MainReadCsv
    \/ MainOpenOutput
    \/ MainOpenOutputFails
    \/ ProducerRead
    \/ ProducerSend
    \/ ProducerClose
    \/ MainEncode
    \/ MainRangeEnd

SpecMain == InitMain /\ [][NextMain]_vars

SpecRow == InitRow /\ [][NextRow]_vars

NextPrinter == ApplyJsonPrinter

SpecPrinter == InitPrinter /\ [][NextPrinter]_vars

\* ------------------------------------------------------- what is expected

\* The lines of f that are not blank.
NonBlank(f) == SelectSeq(f, LAMBDA l : l.kind # "blank")

\* Whether f has a header line that can be read.
HasHeader(f) == NonBlank(f) # <<>> /\ NonBlank(f)[1].kind = "record"

\* The header line as written in the file.
RawHeader(f) == NonBlank(f)[1].cells

\* The longest prefix of the lines q made of records of n cells.
RECURSIVE ReadablePrefix(_, _)
ReadablePrefix(q, n) ==
    IF q = <<>> \/ Head(q).kind # "record" \/ Len(Head(q).cells) # n THEN <<>>
    ELSE <<Head(q).cells>> \o ReadablePrefix(Tail(q), n)

\* The data rows of f: those read before the end of the input or the first
\* read error.
DataRows(f) ==
    IF HasHeader(f) THEN ReadablePrefix(Tail(NonBlank(f)), Len(RawHeader(f))) ELSE <<>>

\* Whether a read error ends the data rows of f.
EndsInError(f) == HasHeader(f) /\ Len(DataRows(f)) < Len(NonBlank(f)) - 1

\* How many data rows are accepted under limit lim.
Accepted(f, lim) ==
    IF lim > 0 THEN Min(lim, Len(DataRows(f))) ELSE Len(DataRows(f))

\* The value of data row i of the file.
RowValue(i) == processRow(columns, DataRows(file)[i], requiredCols, pretty)

NonNil(q) == SelectSeq(q, LAMBDA v : v # Nil)

\* The non-nil values of the accepted data rows, in row order.
ExpectedValues == NonNil([i \in 1..Accepted(file, limit) |-> RowValue(i)])

IsPrefix(p, q) == Len(p) <= Len(q) /\ SubSeq(q, 1, Len(p)) = p

\* The values produced so far, oldest first: received, buffered, about to be sent.
InFlight == received \o lines.buf \o (IF ppc = "send" THEN <<result>> ELSE <<>>)

\* ------------------------------------------------------------------ claims

\* C1 as stated: with limit L > 0 and N data rows, a consumer that drains the
\* channel receives exactly min(L, N) values, the values of the first
\* min(L, N) data rows in order, under any column selection.
C1_AsStated ==
    (pc = "done" /\ limit > 0) =>
        /\ Len(received) = Min(limit, Len(DataRows(file)))
        /\ \A i \in 1..Len(received) : received[i] = RowValue(i)

\* C1 (amended): with limit L > 0 and N data rows, a consumer that drains the
\* channel receives exactly the non-nil processRow results of the first
\* min(L, N) data rows, in order; these are min(L, N) values unless
\* requiredCols has exactly one name and that name is not in the header.
C1_RowLimit ==
    (pc = "done" /\ limit > 0) =>
        /\ received = NonNil([i \in 1..Min(limit, Len(DataRows(file))) |-> RowValue(i)])
        /\ (Len(requiredCols) # 1 \/ Contains(columns, requiredCols[1]))
              => /\ Len(received) = Min(limit, Len(DataRows(file)))
                 /\ \A i \in 1..Len(received) : received[i] = RowValue(i)

\* A drained run in which the limit cut off a third data row.
C1_Witness ==
    /\ pc = "done"
    /\ limit = 2
    /\ Len(DataRows(file)) = 3
    /\ Len(received) = 2

\* C2: in every interleaving of producer and consumer, the values received,
\* buffered and about to be sent are, in that order, a prefix of the non-nil
\* processRow results in input row order, and once the consumer has seen the
\* channel closed the received values are all of them: nothing is reordered,
\* duplicated or lost.
C2_Ordering ==
    /\ pc \in {"range", "done"} => IsPrefix(InFlight, ExpectedValues)
    /\ pc = "done" => received = ExpectedValues

\* The producer waits to send a third value on a full buffer after the
\* consumer has received one or more.
C2_Witness ==
    /\ ppc = "send"
    /\ Len(lines.buf) = Capacity
    /\ Len(ExpectedValues) > Capacity
    /\ result # lines.buf[1]

\* The names at the positions that header and row both have.
SharedNames == {columns[i] : i \in 1..Min(Len(columns), Len(row))}

Distinct(q) == \A i, j \in 1..Len(q) : q[i] = q[j] => i = j

\* The first position of name in the header, 0 if it is not there.
FirstIndex(q, name) ==
    IF Contains(q, name)
    THEN CHOOSE i \in 1..Len(q) : q[i] = name /\ \A j \in 1..(i - 1) : q[j] # name
    ELSE 0

\* C3: with an empty requiredCols and pretty off, for a header of distinct
\* names processRow returns an object whose keys are exactly the names at the
\* positions below min(len(columns), len(row)), each with the raw text of
\* the cell at its position.
C3_AllColumns ==
    (pc = "applied" /\ requiredCols = <<>> /\ ~pretty /\ Distinct(columns)) =>
        /\ result.t = "map"
        /\ Keys(result) = SharedNames
        /\ \A i \in 1..Min(Len(columns), Len(row)) :
              result.m[columns[i]] = StringValue(row[i])

\* All-columns mode applied to a row longer than the header that holds a
\* cell bracketed like JSON.
C3_Witness ==
    /\ pc = "applied"
    /\ requiredCols = <<>>
    /\ ~pretty
    /\ columns = <<NameA, NameB>>
    /\ row = <<CellX, CellObject, CellX>>
    /\ Keys(result) = {NameA, NameB}

\* C4 as stated: with exactly one requested name that is in the header and
\* pretty off, the value of a row that has a cell under that name is the raw
\* text of that cell as a bare string, whatever the text.
C4_SingleColumnRaw ==
    (/\ pc = "applied"
     /\ Len(requiredCols) = 1
     /\ ~pretty
     /\ FirstIndex(columns, requiredCols[1]) \in 1..Len(row)) =>
        result = StringValue(row[FirstIndex(columns, requiredCols[1])])

\* C5: with two or more requested names processRow returns an object whose
\* keys are exactly the header names, at the positions header and row both
\* have, that are requested; requested names not in the header are left out
\* and names not requested never appear.
C5_MultiColumn ==
    (pc = "applied" /\ Len(requiredCols) >= 2) =>
        /\ result.t = "map"
        /\ Keys(result) = {n \in SharedNames : \E k \in 1..Len(requiredCols) : requiredCols[k] = n}
        /\ \A i \in 1..Min(Len(columns), Len(row)) :
              (columns[i] \in Keys(result) /\ Distinct(columns))
                 => result.m[columns[i]] = dataPrinter(pretty, row[i])

\* Multi-column mode with a requested name that is not in the header and a
\* header name that is not requested.
C5_Witness ==
    /\ pc = "applied"
    /\ requiredCols = <<NameB, NameC>>
    /\ columns = <<NameA, NameB>>
    /\ Len(row) = 2
    /\ Keys(result) = {NameB}

\* Whether readCsv has returned.
Returned == pc \notin {"call", "main", "mcall"}

C7_HeaderFailure ==
    Returned =>
        /\ ~HasHeader(file) =>
              /\ err # "nil"
              /\ lines = NilChan
              /\ ppc = "none"
              /\ rows = 0
              /\ received = <<>>
              /\ \A i \in 1..csvReader.pos : file[i].kind # "record"
        /\ (HasHeader(file) /\ Len(RawHeader(file)) >= 1) =>
              /\ err = "nil"
              /\ lines.made
        /\ err # "nil" => (lines = NilChan /\ ppc = "none" /\ received = <<>>)

\* readCsv has failed on an input whose first read fails after a blank line.
C7_Witness ==
    /\ pc = "failed"
    /\ file = <<BlankLine, IoError>>
    /\ err = "failed to read CSV header"
    /\ ~lines.made

\* The index in f of the line at which reading the data rows fails.
ErrorLine(f) ==
    CHOOSE i \in 1..Len(f) :
        /\ f[i].kind # "blank"
        /\ Len(NonBlank(SubSeq(f, 1, i))) = Len(DataRows(f)) + 2

\* C8: when reading a data row fails with an error other than end of input,
\* the producer leaves its loop and closes the channel, readCsv has
\* returned no error, no line after the failing one is read, and a consumer
\* that drains the channel receives exactly the values of the rows before
\* it, in order.
C8_FailSoft ==
    (readErr \notin {"nil", "EOF"}) =>
        /\ ppc \in {"close", "exited"}
        /\ err = "nil"
        /\ EndsInError(file)
        /\ csvReader.pos = ErrorLine(file)
        /\ rows = Len(DataRows(file))
        /\ ppc = "exited" => lines.closed
        /\ IsPrefix(received, NonNil([i \in 1..Len(DataRows(file)) |-> RowValue(i)]))
        /\ pc = "done" =>
              received = NonNil([i \in 1..Len(DataRows(file)) |-> RowValue(i)])

\* A drained run that stopped at a failing row with a value received before
\* it and a line left unread after it.
C8_Witness ==
    /\ pc = "done"
    /\ readErr \notin {"nil", "EOF"}
    /\ Len(received) >= 1
    /\ csvReader.pos < Len(file)

\* C9: main opens the output and encodes values only after readCsv has
\* returned without an error; when readCsv fails on the header the program
\* ends with the output not opened and nothing encoded.
C9_OutputAfterSuccess ==
    /\ (output.opened \/ output.encoded # <<>>) =>
          (Returned /\ err = "nil" /\ HasHeader(file))
    /\ (Returned /\ ~HasHeader(file)) => (pc = "fatal" /\ output = NoOutput)

\* main has ended on a header that could not be read.
C9_Witness ==
    /\ pc = "fatal"
    /\ err = "failed to read CSV header"
    /\ output = NoOutput

\* The object of all header columns for data row i of the file.
AllColumnsObject(i) ==
    MapValue(columns, [k \in 1..Len(columns) |-> dataPrinter(pretty, DataRows(file)[i][k])])

\* C10 as stated: when the -columns flag is not given, readCsv is handed a
\* selection of all columns and every data row is emitted as an object of
\* all header columns.
C10_DefaultAllColumns ==
    (pc = "mdone" /\ columnsFlag = <<>>) =>
        /\ Len(requiredCols) = 0
        /\ output.encoded = [i \in 1..Accepted(file, limit) |-> AllColumnsObject(i)]

\* Whether the text t is longer than one byte and begins and ends with a
\* matching pair of braces or of square brackets.
Bracketed(t) ==
    /\ Len(t) > 1
    /\ \/ t[1] = 123 /\ t[Len(t)] = 125
       \/ t[1] = 91 /\ t[Len(t)] = 93

\* C11: for every cell text s, jsonPrinter(s) is the decoded JSON value of
\* the trimmed text when that is longer than one byte, begins and ends with
\* a matching pair { } or [ ] and parses as JSON (an object for braces, an
\* array for brackets); in every other case it is the string s itself,
\* unchanged and untrimmed. It always returns a value.
C11_JsonPrinter ==
    pc = "printed" =>
        LET s == row[1]
            t == TrimSpace(s)
        IN  /\ result.t \in {"string", "map", "array"}
            /\ (Bracketed(t) /\ Unmarshal(t).ok) =>
                  /\ result = Unmarshal(t).v
                  /\ result.t = IF t[1] = 123 THEN "map" ELSE "array"
            /\ ~(Bracketed(t) /\ Unmarshal(t).ok) => result = StringValue(s)
            /\ result.t = "string" => result.s = s

\* The text {"x":1} with two spaces on either side was decoded to an object
\* with the number 1 under x.
C11_Witness ==
    /\ pc = "printed"
    /\ row[1] = <<32, 32, 123, 34, 120, 34, 58, 49, 125, 32, 32>>
    /\ result = MapValue(<<NameX>>, <<NumberValue(1)>>)

\* The header readCsv keeps for the file f.
HeaderOf(f) == StripHeader(RawHeader(f))

\* The output of a drained run as a function of readCsv's arguments alone.
OutputOf(f, req, lim, pr) ==
    IF HasHeader(f)
    THEN NonNil([i \in 1..Accepted(f, lim) |->
                    processRow(HeaderOf(f), DataRows(f)[i], req, pr)])
    ELSE <<>>

\* C12: the result of readCsv and the sequence a draining consumer has
\* received at closure are functions of the input file, requiredCols, limit
\* and pretty alone, so two runs on the same input and configuration end
\* with the same output sequence whatever the scheduling of producer and
\* consumer in each.
C12_Determinism ==
    /\ Returned => ((err = "nil") = HasHeader(file))
    /\ pc = "done" => received = OutputOf(file, requiredCols, limit, pretty)

\* A drained run of three values, more than the buffer holds.
C12_Witness ==
    /\ pc = "done"
    /\ Len(received) = 3
    /\ Len(received) > Capacity

\* The number of data rows the tokenizer has handed to the producer.
DataRowsRead ==
    IF HasHeader(file) /\ csvReader.pos > 0
    THEN Len(ReadablePrefix(Tail(NonBlank(SubSeq(file, 1, csvReader.pos))),
                            Len(RawHeader(file))))
    ELSE 0

\* The values of the first n data rows that are not nil.
FirstValues(n) == NonNil([i \in 1..n |-> RowValue(i)])

\* C13 as stated: with limit L > 0 and more than L data rows the producer
\* never reads data row L+1 from the tokenizer: at most L data rows are read.
C13_AsStated ==
    (Returned /\ err = "nil" /\ limit > 0 /\ Len(DataRows(file)) > limit) =>
        DataRowsRead <= limit

\* C13 (amended): with limit L > 0 and more than L data rows the producer
\* reads data row L+1 from the tokenizer, leaves its loop on it without
\* transforming or emitting it, and reads no row after it: at most L+1 data
\* rows are ever read and only values of the first L are emitted.
C13_LimitStopsReading ==
    (Returned /\ err = "nil" /\ limit > 0 /\ Len(DataRows(file)) > limit) =>
        /\ DataRowsRead <= limit + 1
        /\ IsPrefix(InFlight, FirstValues(limit))
        /\ ppc \in {"close", "exited"} =>
              /\ DataRowsRead = limit + 1
              /\ rows = limit + 1
              /\ readErr = "nil"

\* The producer has exited under limit 1 on a file of three data rows with
\* two of them read.
C13_Witness ==
    /\ ppc = "exited"
    /\ limit = 1
    /\ Len(DataRows(file)) = 3
    /\ DataRowsRead = 2

\* C14: on every way out of the producer's loop (end of input, a read
\* error, the limit) the channel is closed, by the producer's exit step and
\* by no other step, with nothing left to send; a closed channel stays
\* closed and never takes another value, the producer takes no step after
\* closing (so the channel is closed once), and the channel is closed
\* whenever the producer has exited.
C14_CloseProtocol ==
    /\ [](/\ lines.closed <=> ppc = "exited"
          /\ ppc \in {"close", "exited"} =>
                \/ readErr # "nil"
                \/ limitExceeded(limit, rows))
    /\ [][/\ lines.closed => (lines'.closed /\ Len(lines'.buf) <= Len(lines.buf))
          /\ (~lines.closed /\ lines'.closed) =>
                (ppc = "close" /\ ppc' = "exited" /\ lines'.buf = lines.buf)
          /\ ppc = "exited" => ppc' = "exited"]_vars

\* The producer has left its loop at the limit and closed the channel after
\* a value was received.
C14_Witness ==
    /\ ppc = "exited"
    /\ lines.closed
    /\ readErr = "nil"
    /\ limitExceeded(limit, rows)
    /\ Len(received) >= 1

\* C15: the channel never holds more values than its capacity; a value
\* enters the buffer only by a send of the producer made when the buffer is
\* not full, a value leaves it only by a receive made when the buffer is not
\* empty, and the consumer's loop ends only on a closed and empty channel:
\* the producer is never more than the capacity (and the value in its
\* hand) ahead of the consumer.
C15_Backpressure ==
    /\ [](/\ Len(lines.buf) <= Capacity
          /\ Len(InFlight) - Len(received) <= Capacity + 1)
    /\ [][/\ Len(lines'.buf) > Len(lines.buf) =>
                (ppc = "send" /\ Len(lines.buf) < Capacity
                 /\ lines'.buf = Append(lines.buf, result))
          /\ received' # received =>
                (lines.buf # <<>> /\ received' = Append(received, Head(lines.buf))
                 /\ lines'.buf = Tail(lines.buf))
          /\ (pc = "range" /\ pc' = "done") =>
                (lines.closed /\ lines.buf = <<>>)]_vars

\* The buffer is full, the producer holds the next value and the consumer
\* has not received anything yet.
C15_Witness ==
    /\ pc = "range"
    /\ received = <<>>
    /\ Len(lines.buf) = Capacity
    /\ ppc = "send"

\* C16: once readCsv has returned a channel, a consumer that keeps
\* receiving until it sees the channel closed, scheduled fairly with the
\* producer, reaches the end of its range loop, with the producer exited
\* and the channel closed: no interleaving blocks for ever.
C16_Termination ==
    (pc = "range") ~> (pc = "done" /\ ppc = "exited" /\ lines.closed)

\* The range loop has ended after the consumer took more values than the
\* buffer holds, so the producer had to wait for room or be overtaken.
C16_Witness ==
    /\ pc = "done"
    /\ ppc = "exited"
    /\ limit = 0
    /\ Len(received) = Capacity + 1

\* C17: whenever the consumer has seen the channel closed and left its
\* range loop, the producer has left its read loop and exited, and from
\* then on the tokenizer is never read again: what main defers until after
\* the loop, the close of the input file included, cannot overlap a read of
\* the producer.
C17_ClosureMeansDone ==
    /\ [](pc \in {"done", "mdone"} =>
             (ppc = "exited" /\ lines.closed /\ lines.buf = <<>>))
    /\ [][(pc = "done" \/ pc = "mdone") => UNCHANGED <<csvReader, ppc>>]_vars

\* main has left its encode loop after encoding a value, the producer has
\* exited at the end of the input.
C17_Witness ==
    /\ pc = "mdone"
    /\ ppc = "exited"
    /\ readErr = "EOF"
    /\ Len(output.encoded) >= 1

\* Whether every line of f can be read.
AllReadable(f) == \A i \in 1..Len(f) : f[i].kind # "ioerror"

\* The rows after the header of f, whatever their numbers of cells.
RowsAfterHeader(f) == [i \in 1..(Len(NonBlank(f)) - 1) |-> NonBlank(f)[i + 1].cells]

\* C18: a data row whose number of cells differs from the header's does not
\* make the reader fail or stop: when every line of the file can be read and
\* there is no limit, the producer ends at the end of the input and the
\* drained output holds a value for every row after the header, built by
\* processRow from the positions the header and the row share.
C18_MismatchNotFatal ==
    (pc = "done" /\ limit = 0 /\ HasHeader(file) /\ AllReadable(file)) =>
        /\ readErr = "EOF"
        /\ received = NonNil([i \in 1..Len(RowsAfterHeader(file)) |->
                                processRow(columns, RowsAfterHeader(file)[i],
                                           requiredCols, pretty)])

\* The data rows transformed so far: all those counted, but for the one on
\* which the limit was crossed.
Processed == IF limitExceeded(limit, rows) THEN rows - 1 ELSE rows

\* C19: blank rows are skipped. The row counter counts the data rows read
\* and no blank line; the values produced so far are those of the data rows
\* transformed so far, none for a blank line; a blank line alone never makes
\* the producer leave its loop; and the drained output is that of the file
\* without its blank lines, so the rows after a blank line are still read
\* and emitted.
C19_BlankRowsSkipped ==
    (Returned /\ err = "nil") =>
        /\ rows = DataRowsRead
        /\ InFlight = FirstValues(Processed)
        /\ (ppc \in {"close", "exited"} /\ readErr = "nil") => limitExceeded(limit, rows)
        /\ pc = "done" => received = ExpectedValues

\* A file with a blank line right after the header and a row after it, read
\* under limit 1: the row is the one counted and emitted.
C19_Witness ==
    /\ pc = "done"
    /\ Len(file) >= 3
    /\ file[2] = BlankLine
    /\ file[3] = Record(<<CellX, CellY>>)
    /\ limit = 1
    /\ rows >= 1
    /\ received = <<RowValue(1)>>

\* Whether requiredCols is a single name under which data row i has no cell
\* at an index below the header length.
NoCellUnderName(i) ==
    /\ Len(requiredCols) = 1
    /\ \A j \in 1..Min(Len(columns), Len(DataRows(file)[i])) :
           columns[j] # requiredCols[1]

\* C20: one value per accepted row. The value of a transformed data row is
\* nil exactly when requiredCols is a single name with no cell of the row
\* under it; the values pushed so far are as many as the transformed rows
\* that are not in that case; nil is never on the channel nor received; and
\* a requested name the header does not have raises no error: readCsv
\* succeeds whenever the header can be read, and the producer meets a read
\* error only where the file has one.
C20_OneValuePerRow ==
    (Returned /\ HasHeader(file)) =>
        /\ err = "nil"
        /\ \A i \in 1..Processed : (RowValue(i) = Nil) <=> NoCellUnderName(i)
        /\ Len(InFlight) = Cardinality({i \in 1..Processed : ~NoCellUnderName(i)})
        /\ \A k \in 1..Len(lines.buf) : lines.buf[k] # Nil
        /\ \A k \in 1..Len(received) : received[k] # Nil
        /\ readErr \notin {"nil", "EOF"} => EndsInError(file)

\* Two rows were accepted under a single requested name the header does not
\* have: nothing was pushed and the input was read to its end.
C20_Witness ==
    /\ pc = "done"
    /\ requiredCols = <<NameC>>
    /\ Processed >= 2
    /\ readErr = "EOF"
    /\ received = <<>>

\* The last position of name among those header and row both have.
LastSharedIndex(name) ==
    CHOOSE i \in 1..Min(Len(columns), Len(row)) :
        /\ columns[i] = name
        /\ \A j \in (i + 1)..Min(Len(columns), Len(row)) : columns[j] # name

\* C21: in all-columns and multi-column modes, a name that stands at several
\* header positions gives the object returned by processRow one key, whose
\* value is that of the cell at the last of these positions that the row
\* has; every shared position that the mode selects gives its name as a key,
\* and the result is an object, never an error.
C21_DuplicateNames ==
    (pc = "applied" /\ Len(requiredCols) # 1) =>
        /\ result.t = "map"
        /\ \A i \in 1..Min(Len(columns), Len(row)) :
              (requiredCols = <<>> \/ Contains(requiredCols, columns[i]))
                 => columns[i] \in Keys(result)
        /\ \A name \in Keys(result) :
              result.m[name] = dataPrinter(pretty, row[LastSharedIndex(name)])

\* All-columns mode on a header with the name a at positions 1 and 3: the
\* value under a is the third cell.
C21_Witness ==
    /\ pc = "applied"
    /\ requiredCols = <<>>
    /\ ~pretty
    /\ columns = <<NameA, NameB, NameA>>
    /\ row = <<CellX, CellX, CellObject>>
    /\ Keys(result) = {NameA, NameB}
    /\ result.m[NameA] = StringValue(CellObject)

\* The producer waits in its send: a result in hand, no room in the buffer.
BlockedOnSend == ppc = "send" /\ Len(lines.buf) >= Capacity /\ ~lines.closed

\* C22: there is no cancellation. The producer leaves its loop only at the
\* end of the input, on a read error, or past the limit; and once the
\* consumer has stopped receiving while the producer waits in a send on a
\* full buffer, no step changes that: the producer stays blocked in the
\* send, the buffer stays full and the channel is never closed.
C22_NoCancellation ==
    /\ [](ppc \in {"close", "exited"} =>
             (readErr \in {"EOF", "read error", "wrong number of fields"}
                 \/ limitExceeded(limit, rows)))
    /\ [][(pc = "stopped" /\ BlockedOnSend) => UNCHANGED vars]_vars

\* The consumer stopped before receiving anything; the producer filled the
\* buffer and holds the value of a further row that it cannot send.
C22_Witness ==
    /\ pc = "stopped"
    /\ BlockedOnSend
    /\ received = <<>>
    /\ rows = Capacity + 1
    /\ result # Nil

====
